---- MODULE Spec2Model ----
(***************************************************************************)
(* The timestamp snapshot/restore engine of retaining_date (src/main.rs). *)
(*                                                                         *)
(* State: the filesystem (a small directory tree), the SQLite store with  *)
(* its three tables dir_props, dir_file_props, dir_actions_log, the wall   *)
(* clock, and the invocations of the program.  Every invocation runs one  *)
(* command (save or apply) and walks through the statements of            *)
(* save_dirs_props / apply_dirs_props / get_dir_prop_row_id; a recursive   *)
(* save walks the directory tree as save_dirs_props_recursive does.        *)
(*                                                                         *)
(* The store is SQLite behind sqlx: pool.begin() opens a deferred         *)
(* transaction, which reads from the snapshot taken at its first          *)
(* statement, needs the single write lock for its first write, and cannot *)
(* turn a stale read snapshot into a write (SQLITE_BUSY).  Dropping a     *)
(* transaction without commit rolls it back.                               *)
(***************************************************************************)
EXTENDS Integers, Sequences, FiniteSets, TLC

\* ------------------------------------------------------------------ bounds
MaxTime == 1      \* the wall clock runs over 0..MaxTime
MaxOps == 3       \* commands started in one behaviour
MaxEnv == 2       \* changes the user makes to the directory, one command at a time
MaxConcEnv == 1   \* the same, when commands run concurrently

Procs == {"p1", "p2"}          \* concurrent invocations of the program
Paths == {"A", "B"}            \* path strings given on the command line
Names == {"f", "g", "x"}       \* base names of directory entries
NotUnicode == {"x"}            \* the names that are not valid Unicode
Times == 0..MaxTime
NoProc == "nobody"

\* dir.join(name), entry.path(): the path of the entry called n in directory d
join(d, n) == d \o "/" \o n

\* The directories a recursive save can meet: A, two subdirectories, and one
\* below the second.
Tree == {"A", join("A", "f"), join("A", "g"), join(join("A", "g"), "g")}

AllPaths == Paths \cup Tree

\* --------------------------------------------------------------- time values
\* chrono DateTime<Local>: an instant together with the local UTC offset.
LocalOffset == 1

NoDate == [utc |-> -1, off |-> 0]

\* fn system_time_to_datetime_local(system_time) -> DateTime<Local>
system_time_to_datetime_local(t) == [utc |-> t, off |-> LocalOffset]

\* fn datetime_local_to_system_time(datetime) -> SystemTime
datetime_local_to_system_time(dt) == dt.utc

\* impl From<LogActionType> for u8
CacheDates == 0

\* ------------------------------------------------------------------- state
VARIABLES
    now,      \* the wall clock read by Local::now()
    dirs,     \* the paths that exist as directories
    fs,       \* fs[d][n]: the entry named n directly inside directory d
    db,       \* the committed store
    writer,   \* the invocation holding SQLite's write lock, or NoProc
    proc,     \* proc[p]: the local state of invocation p
    nops,     \* commands, and passes of recursive commands, started so far
    nenv,     \* user changes to the filesystem so far
    upserts,  \* history: upserts[k] = names upserted by committed pass k
    lastcap   \* history: lastcap[d] = the last two committed captures of d

vars == <<now, dirs, fs, db, writer, proc, nops, nenv, upserts, lastcap>>

NoEntry == [kind |-> "none", created |-> 0, modified |-> 0]

EmptyDb == [dir_props |-> <<>>, dir_file_props |-> <<>>, dir_actions_log |-> <<>>]

NoCapture ==
    [n |-> 0, fs |-> [n \in Names |-> NoEntry], names |-> {}, nlog |-> 0,
     cached_time |-> NoDate,
     prev_fs |-> [n \in Names |-> NoEntry], prev_names |-> {}, prev_nlog |-> 0]

IdleProc ==
    [pc |-> "idle", cmd |-> "none", dir |-> "", id |-> 0,
     tx |-> "none", snap |-> EmptyDb,
     cached_time |-> NoDate, latest_cached_time |-> NoDate,
     entries |-> {}, files_props |-> {},
     res |-> [n \in Names |-> "na"], err |-> "none",
     pass |-> 0, ups |-> {}, vlog |-> <<>>, vfiles |-> {},
     fs0 |-> [n \in Names |-> NoEntry], db0 |-> EmptyDb,
     recursive |-> FALSE, stack |-> <<>>,
     root |-> "", passes |-> <<>>, rdb0 |-> EmptyDb]

Init ==
    /\ now = 0
    /\ dirs = {"A"}
    /\ fs = [d \in AllPaths |-> [n \in Names |->
                IF d = "A" /\ n = "f"
                THEN [kind |-> "file", created |-> 0, modified |-> 0]
                ELSE NoEntry]]
    /\ db = EmptyDb
    /\ writer = NoProc
    /\ proc = [p \in Procs |-> IdleProc]
    /\ nops = 0
    /\ nenv = 0
    /\ upserts = [k \in {} |-> {}]
    /\ lastcap = [d \in AllPaths |-> NoCapture]

\* ------------------------------------------------------------- environment
\* The clock advances (two reads of Local::now() may return the same value).
Tick ==
    /\ now < MaxTime
    /\ now' = now + 1
    /\ UNCHANGED <<dirs, fs, db, writer, proc, nops, nenv, upserts, lastcap>>

SetEntry(d, n, e) == fs' = [fs EXCEPT ![d][n] = e]

\* The user creates, deletes or rewrites a file, or puts a non-regular entry
\* (a subdirectory, a symlink) in the directory, while no command is running.
AllIdle == \A p \in Procs : proc[p].pc = "idle"

UserChange(max) ==
    /\ AllIdle
    /\ nenv < max
    /\ nenv' = nenv + 1
    /\ \E d \in dirs, n \in Names :
         \/ /\ fs[d][n].kind = "none"
            /\ \E k \in IF n \in NotUnicode THEN {"file"} ELSE {"file", "other"} :
                 SetEntry(d, n, [kind |-> k, created |-> now, modified |-> now])
         \/ /\ fs[d][n].kind # "none"
            /\ SetEntry(d, n, NoEntry)
         \/ /\ fs[d][n].kind = "file"
            /\ \E t \in Times \ {fs[d][n].modified} :
                 SetEntry(d, n, [fs[d][n] EXCEPT !.modified = t])
    /\ UNCHANGED <<now, dirs, db, writer, proc, nops, upserts, lastcap>>

\* ------------------------------------------------------------ store queries
Min(S) == CHOOSE x \in S : \A y \in S : x <= y

\* SELECT id FROM dir_props WHERE path = $1 LIMIT 1
SelectDirIds(view, path) ==
    {i \in 1..Len(view.dir_props) : view.dir_props[i] = path}

\* INSERT INTO dir_props (path) VALUES ($1); the new row id is last_insert_rowid()
InsertDir(view, path) == [view EXCEPT !.dir_props = Append(@, path)]

\* Variant: INSERT OR REPLACE keyed by dir_id, one log row per directory.
InsertLogReplacing(view, id, cached, pass) ==
    [view EXCEPT !.dir_actions_log =
        Append(SelectSeq(@, LAMBDA e : e.dir_id # id),
               [dir_id |-> id, action_type |-> CacheDates,
                cached_date |-> cached, pass |-> pass])]

\* INSERT INTO dir_actions_log (dir_id, action_type, cached_date) VALUES ($1, $2, $3)
\* (pass is history only: the number of the command that wrote the row)
InsertLog(view, id, cached, pass) ==
    [view EXCEPT !.dir_actions_log =
        Append(@, [dir_id |-> id, action_type |-> CacheDates,
                   cached_date |-> cached, pass |-> pass])]

\* SELECT id FROM dir_file_props WHERE dir_id = $1 AND name = $2 LIMIT 1
SelectFilePropIds(view, id, name) ==
    {i \in 1..Len(view.dir_file_props) :
        /\ view.dir_file_props[i].dir_id = id
        /\ view.dir_file_props[i].name = name}

\* Variant: the INSERT without the SELECT before it.
UpsertAlwaysInserts(view, id, name, cached, created, modified, pass) ==
    [view EXCEPT !.dir_file_props =
        Append(@, [dir_id |-> id, name |-> name, cached_date |-> cached,
                   created_date |-> created, modified_date |-> modified,
                   pass |-> pass])]

\* The match of save_dirs_props on that SELECT: UPDATE the row found, or
\* INSERT a new one on RowNotFound.
UpsertFileProp(view, id, name, cached, created, modified, pass) ==
    LET hit == SelectFilePropIds(view, id, name)
        row == [dir_id |-> id, name |-> name, cached_date |-> cached,
                created_date |-> created, modified_date |-> modified,
                pass |-> pass]
    IN  IF hit # {}
        THEN [view EXCEPT !.dir_file_props[Min(hit)] = row]
        ELSE [view EXCEPT !.dir_file_props = Append(@, row)]

\* SELECT cached_date FROM dir_actions_log WHERE dir_id = $1 AND action_type = $2
\* (the rows the query ranges over, in insertion order)
SelectLog(view, id) ==
    SelectSeq(view.dir_actions_log,
              LAMBDA e : e.dir_id = id /\ e.action_type = CacheDates)

\* Variant: ORDER BY cached_date ASC.
EarliestCachedDate(rows) ==
    LET ds == {rows[i].cached_date : i \in 1..Len(rows)}
    IN  CHOOSE d \in ds : \A e \in ds : d.utc <= e.utc

\* ... ORDER BY cached_date DESC LIMIT 1
LatestCachedDate(rows) ==
    LET ds == {rows[i].cached_date : i \in 1..Len(rows)}
    IN  CHOOSE d \in ds : \A e \in ds : e.utc <= d.utc

FileProps(view) == {view.dir_file_props[i] : i \in 1..Len(view.dir_file_props)}

\* SELECT name, created_date, modified_date FROM dir_file_props
\* WHERE dir_id = $1 AND cached_date = $2
SelectFileProps(view, id, cached) ==
    {r \in FileProps(view) : r.dir_id = id /\ r.cached_date = cached}

\* The names that have a file record under directory id.
DirNames(view, id) == {r.name : r \in {q \in FileProps(view) : q.dir_id = id}}

\* ------------------------------------------------------------ transactions
Upd(p, r) == proc' = [proc EXCEPT ![p] = r]

\* What a statement of p's write transaction reads: the store as of the
\* transaction's first statement, with the transaction's own writes.
TxView(p) == proc[p].snap

\* Variant: the SELECT on the pool (autocommit) instead of the transaction,
\* so it reads what is committed at that moment.
ReadsCommitted(p) == db

\* What a later SELECT of p's read transaction reads: the snapshot taken at
\* the transaction's first SELECT.
Snapshot(p) == proc[p].snap

\* Variant: a store that lets a stale reader write.
CanUpgradeStale(p) == writer = NoProc

\* A deferred transaction that has only read may start writing when nobody
\* holds the write lock and nothing was committed since its snapshot.
CanUpgrade(p) == writer = NoProc /\ proc[p].snap = db

\* Variant: an error inside a recursive save ends the call of
\* save_dirs_props_recursive it occurred in, and the caller's loop goes on to
\* its next entry.
ReturnedFromSubtree(r, pc, err) ==
    LET callers == IF r.pc = "rec_loop"
                   THEN SubSeq(r.stack, 1, Len(r.stack) - 1)
                   ELSE r.stack
        keep == [IdleProc EXCEPT !.pc = pc, !.err = err, !.cmd = r.cmd,
                     !.dir = r.dir, !.id = r.id, !.pass = r.pass, !.res = r.res,
                     !.vlog = r.vlog, !.vfiles = r.vfiles,
                     !.fs0 = r.fs0, !.db0 = r.db0,
                     !.recursive = r.recursive, !.root = r.root,
                     !.passes = r.passes, !.rdb0 = r.rdb0]
    IN  IF pc = "failed" /\ r.recursive /\ callers # <<>>
        THEN [keep EXCEPT !.pc = "rec_loop", !.err = "none", !.stack = callers]
        ELSE keep

\* The command has returned (Ok or Err): its locals are gone and its open
\* transaction, if any, is dropped.  What it did stays on record.
Returned(r, pc, err) ==
    [IdleProc EXCEPT !.pc = pc, !.err = err, !.cmd = r.cmd, !.dir = r.dir,
                     !.id = r.id, !.pass = r.pass, !.res = r.res,
                     !.vlog = r.vlog, !.vfiles = r.vfiles,
                     !.fs0 = r.fs0, !.db0 = r.db0,
                     !.recursive = r.recursive, !.root = r.root,
                     !.passes = r.passes, !.rdb0 = r.rdb0]

\* save_dirs_props has returned Ok(()): main returns it, and
\* save_dirs_props_recursive goes on to its own read_dir of the directory.
\* (passes is history: the passes this command has committed)
PassReturned(r) ==
    LET passes == Append(r.passes, [dir |-> r.dir, pass |-> r.pass])
    IN  IF r.recursive
        THEN [Returned(r, "rec_readdir", "none") EXCEPT !.passes = passes,
                                                        !.stack = r.stack]
        ELSE [Returned(r, "done", "none") EXCEPT !.passes = passes]

\* The statement after get_dir_prop_row_id returns.
AfterResolve(c) == IF c = "save" THEN "save_now" ELSE "apply_log"

\* ------------------------------------------------------------- the commands
\* Variant: no dir.exists() check; the command goes on to the resolver.
StartNoExistsCheck(p, c, d) ==
    /\ proc[p].pc = "idle"
    /\ nops < MaxOps
    /\ nops' = nops + 1
    /\ Upd(p, [IdleProc EXCEPT !.pc = "resolve", !.cmd = c, !.dir = d,
                                !.pass = nops + 1, !.fs0 = fs[d], !.db0 = db])
    /\ UNCHANGED <<now, dirs, fs, db, writer, nenv, upserts, lastcap>>

\* main: Commands::Save / Commands::Apply; then the dir.exists() check at the
\* top of save_dirs_props and apply_dirs_props.
Start(p, c, d) ==
    /\ proc[p].pc = "idle"
    /\ nops < MaxOps
    /\ nops' = nops + 1
    /\ IF d \in dirs
       THEN Upd(p, [IdleProc EXCEPT !.pc = "resolve", !.cmd = c, !.dir = d,
                                    !.pass = nops + 1, !.fs0 = fs[d], !.db0 = db])
       ELSE Upd(p, [IdleProc EXCEPT !.pc = "failed", !.cmd = c, !.dir = d,
                                    !.err = "NotFound", !.pass = nops + 1,
                                    !.fs0 = fs[d], !.db0 = db])
    /\ UNCHANGED <<now, dirs, fs, db, writer, nenv, upserts, lastcap>>

\* get_dir_prop_row_id: begin, SELECT; a row found is returned and the
\* transaction committed, otherwise the INSERT follows.
ResolveSelect(p) ==
    /\ proc[p].pc = "resolve"
    /\ LET ids == SelectDirIds(db, proc[p].dir)
       IN  IF ids # {}
           THEN Upd(p, [proc[p] EXCEPT !.pc = AfterResolve(proc[p].cmd),
                                       !.id = Min(ids)])
           ELSE Upd(p, [proc[p] EXCEPT !.pc = "resolve_insert",
                                       !.tx = "read", !.snap = db])
    /\ UNCHANGED <<now, dirs, fs, db, writer, nops, nenv, upserts, lastcap>>

\* get_dir_prop_row_id: INSERT INTO dir_props, last_insert_rowid(), commit.
ResolveInsert(p) ==
    /\ proc[p].pc = "resolve_insert"
    /\ CanUpgrade(p)
    /\ db' = InsertDir(db, proc[p].dir)
    /\ Upd(p, [proc[p] EXCEPT !.pc = AfterResolve(proc[p].cmd),
                              !.id = Len(db.dir_props) + 1,
                              !.tx = "none", !.snap = EmptyDb])
    /\ UNCHANGED <<now, dirs, fs, writer, nops, nenv, upserts, lastcap>>

\* save_dirs_props: let cached_time = Local::now()
SaveNow(p) ==
    /\ proc[p].pc = "save_now"
    /\ Upd(p, [proc[p] EXCEPT !.pc = "save_log",
                              !.cached_time = system_time_to_datetime_local(now)])
    /\ UNCHANGED <<now, dirs, fs, db, writer, nops, nenv, upserts, lastcap>>

\* Variant: the log INSERT executed on the pool, hence committed at once.
SaveLogOnPool(p) ==
    /\ proc[p].pc = "save_log"
    /\ writer = NoProc
    /\ writer' = p
    /\ db' = InsertLog(db, proc[p].id, proc[p].cached_time, proc[p].pass)
    /\ Upd(p, [proc[p] EXCEPT !.pc = "save_readdir", !.tx = "write",
                              !.snap = db'])
    /\ UNCHANGED <<now, dirs, fs, nops, nenv, upserts, lastcap>>

\* save_dirs_props: pool.begin() and the INSERT INTO dir_actions_log, the
\* transaction's first statement, which takes the write lock.  The row goes
\* to the transaction (conn), not to the committed store.
SaveLog(p) ==
    /\ proc[p].pc = "save_log"
    /\ writer = NoProc
    /\ writer' = p
    /\ Upd(p, [proc[p] EXCEPT !.pc = "save_readdir", !.tx = "write",
                 !.snap = InsertLog(db, proc[p].id, proc[p].cached_time,
                                    proc[p].pass)])
    /\ UNCHANGED <<now, dirs, fs, db, nops, nenv, upserts, lastcap>>

\* Variant: the listing goes through every regular file with a handle opened
\* for writing, which sets its modification time to the current time.
SaveReadDirTouching(p) ==
    /\ proc[p].pc = "save_readdir"
    /\ LET listing == {n \in Names : fs[proc[p].dir][n].kind # "none"}
       IN  \E lost \in SUBSET listing :
             Upd(p, [proc[p] EXCEPT !.pc = "save_loop",
                                    !.entries = listing \ lost])
    /\ fs' = [fs EXCEPT ![proc[p].dir] = [n \in Names |->
                IF @[n].kind = "file" THEN [@[n] EXCEPT !.modified = now]
                ELSE @[n]]]
    /\ UNCHANGED <<now, dirs, db, writer, nops, nenv, upserts, lastcap>>

\* save_dirs_props: dir.read_dir()?.flatten() - the entries of the directory,
\* without those whose read returned Err (flatten drops them).
SaveReadDir(p) ==
    /\ proc[p].pc = "save_readdir"
    /\ LET listing == {n \in Names : fs[proc[p].dir][n].kind # "none"}
       IN  \E lost \in SUBSET listing :
             Upd(p, [proc[p] EXCEPT !.pc = "save_loop",
                                    !.entries = listing \ lost])
    /\ UNCHANGED <<now, dirs, fs, db, writer, nops, nenv, upserts, lastcap>>

\* file_name.to_str(): None for a name that is not valid Unicode
to_str_ok(n) == n \notin NotUnicode

\* Variant: Local::now() read again for every file record.
SaveEntryOwnTime(p) ==
    /\ proc[p].pc = "save_loop"
    /\ \E n \in proc[p].entries, metadata_ok \in BOOLEAN :
         LET e == fs[proc[p].dir][n]
             rest == proc[p].entries \ {n}
         IN  IF e.kind # "file"
             THEN Upd(p, [proc[p] EXCEPT !.entries = rest])
             ELSE IF ~to_str_ok(n)
             THEN Upd(p, Returned(proc[p], "failed", "Encoding"))
             ELSE IF ~metadata_ok
             THEN Upd(p, [proc[p] EXCEPT !.entries = rest])
             ELSE Upd(p, [proc[p] EXCEPT
                    !.entries = rest,
                    !.ups = @ \cup {n},
                    !.snap = UpsertFileProp(TxView(p), proc[p].id, n,
                                system_time_to_datetime_local(now),
                                system_time_to_datetime_local(e.created),
                                system_time_to_datetime_local(e.modified),
                                proc[p].pass)])
    /\ writer' = IF proc'[p].pc = "failed" THEN NoProc ELSE writer
    /\ UNCHANGED <<now, dirs, fs, db, nops, nenv, upserts, lastcap>>

\* save_dirs_props: one iteration of the loop over the entries.
SaveEntry(p) ==
    /\ proc[p].pc = "save_loop"
    /\ \E n \in proc[p].entries, metadata_ok \in BOOLEAN :
         LET e == fs[proc[p].dir][n]
             rest == proc[p].entries \ {n}
         IN  IF e.kind # "file"
             THEN \* not is_file(): continue
                  Upd(p, [proc[p] EXCEPT !.entries = rest])
             ELSE IF ~to_str_ok(n)
             THEN Upd(p, Returned(proc[p], "failed", "Encoding"))
             ELSE IF ~metadata_ok
             THEN \* if let Ok(metadata) = entry.metadata(): no else branch
                  Upd(p, [proc[p] EXCEPT !.entries = rest])
             ELSE Upd(p, [proc[p] EXCEPT
                    !.entries = rest,
                    !.ups = @ \cup {n},
                    !.snap = UpsertFileProp(TxView(p), proc[p].id, n,
                                proc[p].cached_time,
                                system_time_to_datetime_local(e.created),
                                system_time_to_datetime_local(e.modified),
                                proc[p].pass)])
    /\ writer' = IF proc'[p].pc = "failed" THEN NoProc ELSE writer
    /\ UNCHANGED <<now, dirs, fs, db, nops, nenv, upserts, lastcap>>

\* save_dirs_props: tx.commit() after the loop.
SaveCommit(p) ==
    /\ proc[p].pc = "save_loop"
    /\ proc[p].entries = {}
    /\ db' = proc[p].snap
    /\ writer' = NoProc
    /\ upserts' = [k \in DOMAIN upserts \cup {proc[p].pass} |->
                     IF k = proc[p].pass THEN proc[p].ups ELSE upserts[k]]
    /\ lastcap' = [lastcap EXCEPT ![proc[p].dir] =
                      [n |-> @.n + 1, fs |-> fs[proc[p].dir],
                       names |-> DirNames(proc[p].snap, proc[p].id),
                       nlog |-> Len(SelectLog(proc[p].snap, proc[p].id)),
                       cached_time |-> proc[p].cached_time,
                       prev_fs |-> @.fs, prev_names |-> @.names,
                       prev_nlog |-> @.nlog]]
    /\ Upd(p, PassReturned(proc[p]))
    /\ UNCHANGED <<now, dirs, fs, nops, nenv>>

\* Variant: RowNotFound handled by the Err(e) arm.
NoLogRowIsError(r) == Returned(r, "failed", "RowNotFound")

\* apply_dirs_props: Err(sqlx::Error::RowNotFound) => return Ok(()) on the
\* SELECT of the latest cached_date; the transaction is dropped.
NoLogRow(r) == Returned(r, "done", "none")

\* apply_dirs_props: pool.begin() and the SELECT of the latest cached_date.
ApplyReadLog(p) ==
    /\ proc[p].pc = "apply_log"
    /\ LET rows == SelectLog(db, proc[p].id)
       IN  IF rows = <<>>
           THEN Upd(p, NoLogRow(proc[p]))
           ELSE Upd(p, [proc[p] EXCEPT !.pc = "apply_files",
                          !.tx = "read", !.snap = db, !.vlog = rows,
                          !.latest_cached_time = LatestCachedDate(rows)])
    /\ UNCHANGED <<now, dirs, fs, db, writer, nops, nenv, upserts, lastcap>>

\* apply_dirs_props: the SELECT of the file records of that cached_date, in
\* the same transaction.
ApplyReadFiles(p) ==
    /\ proc[p].pc = "apply_files"
    /\ Upd(p, [proc[p] EXCEPT !.pc = "apply_loop",
                 !.files_props = SelectFileProps(Snapshot(p), proc[p].id,
                                                 proc[p].latest_cached_time),
                 !.vfiles = {r \in FileProps(Snapshot(p)) : r.dir_id = proc[p].id},
                 !.res = [n \in Names |->
                    IF \E r \in SelectFileProps(Snapshot(p), proc[p].id,
                                                proc[p].latest_cached_time) :
                          r.name = n
                    THEN "pending" ELSE "na"]])
    /\ UNCHANGED <<now, dirs, fs, db, writer, nops, nenv, upserts, lastcap>>

\* file.set_modified(datetime_local_to_system_time(file_previous_modified_date))
SetModified(e, modified_date) ==
    [e EXCEPT !.modified = datetime_local_to_system_time(modified_date)]

\* Variant: file_path.exists() alone.
path_exists(e) == e.kind # "none"

\* file_path.exists() && file_path.is_file()
path_is_file(e) == e.kind = "file"

\* Variant: the error logged and the loop continued.
WriteFailedContinue(r, name) == [r EXCEPT !.res[name] = "failed"]

\* OpenOptions::open(file_path)? / file.set_modified(..)? returning Err: the
\* `?` returns from apply_dirs_props.
WriteFailed(r, name) ==
    Returned([r EXCEPT !.res[name] = "failed"], "failed", "Io")

\* apply_dirs_props: one iteration of the loop over files_props.  The file
\* is skipped when it does not exist or is not a regular file; a failing
\* open or set_modified returns the error.
ApplyFile(p) ==
    /\ proc[p].pc = "apply_loop"
    /\ \E r \in proc[p].files_props, io_ok \in BOOLEAN :
         LET e == fs[proc[p].dir][r.name]
             rest == proc[p].files_props \ {r}
         IN  IF ~path_is_file(e)
             THEN /\ Upd(p, [proc[p] EXCEPT !.files_props = rest,
                                            !.res[r.name] = "skipped"])
                  /\ fs' = fs
             ELSE IF ~io_ok
             THEN /\ Upd(p, WriteFailed([proc[p] EXCEPT !.files_props = rest],
                                        r.name))
                  /\ fs' = fs
             ELSE /\ Upd(p, [proc[p] EXCEPT !.files_props = rest,
                                            !.res[r.name] = "written"])
                  /\ SetEntry(proc[p].dir, r.name, SetModified(e, r.modified_date))
    /\ UNCHANGED <<now, dirs, db, writer, nops, nenv, upserts, lastcap>>

\* apply_dirs_props: tx.commit() after the loop.
ApplyCommit(p) ==
    /\ proc[p].pc = "apply_loop"
    /\ proc[p].files_props = {}
    /\ Upd(p, Returned(proc[p], "done", "none"))
    /\ UNCHANGED <<now, dirs, fs, db, writer, nops, nenv, upserts, lastcap>>

\* The errors a statement can return with `?` (or the process being killed):
\* the command ends and its open transaction is dropped, hence rolled back.
FailKinds(r) ==
    CASE r.pc \in {"resolve", "resolve_insert", "save_log", "apply_log", "apply_files"}
            -> {"Store", "Interrupted"}
      [] r.pc = "save_now" -> {"Interrupted"}
      [] r.pc = "save_readdir" -> {"Io", "Interrupted"}
      [] r.pc = "save_loop" -> {"Io", "Store", "Interrupted"}
      [] r.pc = "apply_loop" ->
            IF r.files_props = {} THEN {"Store", "Interrupted"} ELSE {"Interrupted"}
      [] r.pc = "rec_readdir" -> {"Io", "Interrupted"}
      [] r.pc = "rec_loop" ->
            IF r.stack[Len(r.stack)].todo # {} THEN {"Io", "Interrupted"}
            ELSE {"Interrupted"}
      [] OTHER -> {}

Fail(p) ==
    /\ \E k \in FailKinds(proc[p]) :
         Upd(p, Returned(proc[p], "failed", k))
    /\ writer' = IF writer = p THEN NoProc ELSE writer
    /\ UNCHANGED <<now, dirs, fs, db, nops, nenv, upserts, lastcap>>

\* The process exits; a later invocation starts from scratch.
Exit(p) ==
    /\ proc[p].pc \in {"done", "failed"}
    /\ Upd(p, IdleProc)
    /\ UNCHANGED <<now, dirs, fs, db, writer, nops, nenv, upserts, lastcap>>

Step(p) ==
    \/ ResolveSelect(p)
    \/ ResolveInsert(p)
    \/ SaveNow(p)
    \/ SaveLog(p)
    \/ SaveReadDir(p)
    \/ SaveEntry(p)
    \/ SaveCommit(p)
    \/ ApplyReadLog(p)
    \/ ApplyReadFiles(p)
    \/ ApplyFile(p)
    \/ ApplyCommit(p)
    \/ Fail(p)
    \/ Exit(p)

\* Any number of invocations at once; the user changes the directory between
\* invocations, the clock runs at any time.
Next ==
    \/ Tick
    \/ UserChange(MaxConcEnv)
    \/ \E p \in Procs, c \in {"save", "apply"}, d \in Paths : Start(p, c, d)
    \/ \E p \in Procs : Step(p)

Spec == Init /\ [][Next]_vars

\* One invocation at a time.
SeqStart(p, c, d) == AllIdle /\ Start(p, c, d)

SeqNext ==
    \/ Tick
    \/ UserChange(MaxEnv)
    \/ \E p \in Procs, c \in {"save", "apply"}, d \in Paths : SeqStart(p, c, d)
    \/ \E p \in Procs : Step(p)

SeqSpec == Init /\ [][SeqNext]_vars

\* ------------------------------------------------------- recursive capture
\* main: Commands::Save with recursive; save_dirs_props_recursive calls
\* save_dirs_props on the root first, which checks dir.exists().
StartRecursive(p, d) ==
    /\ proc[p].pc = "idle"
    /\ nops < MaxOps
    /\ nops' = nops + 1
    /\ LET r == [IdleProc EXCEPT !.cmd = "save", !.dir = d, !.recursive = TRUE,
                                 !.root = d, !.rdb0 = db, !.pass = nops + 1,
                                 !.fs0 = fs[d], !.db0 = db]
       IN  IF d \in dirs
           THEN Upd(p, [r EXCEPT !.pc = "resolve"])
           ELSE Upd(p, [r EXCEPT !.pc = "failed", !.err = "NotFound"])
    /\ UNCHANGED <<now, dirs, fs, db, writer, nenv, upserts, lastcap>>

\* save_dirs_props_recursive: dir.read_dir()? after the pass on dir; the
\* iterator over its entries is a new frame of the recursion.
RecReadDir(p) ==
    /\ proc[p].pc = "rec_readdir"
    /\ Upd(p, [proc[p] EXCEPT
          !.pc = "rec_loop",
          !.stack = Append(@, [dir |-> proc[p].dir,
                               todo |-> {n \in Names :
                                   fs[proc[p].dir][n].kind # "none"}])])
    /\ UNCHANGED <<now, dirs, fs, db, writer, nops, nenv, upserts, lastcap>>

\* entry.file_type()?.is_dir()
is_dir(e) == e.kind = "dir"

\* save_dirs_props_recursive: one iteration of the loop.  A directory entry
\* is descended into, which starts with the pass on it (and its exists
\* check); any other entry is passed over.
RecEntry(p) ==
    /\ proc[p].pc = "rec_loop"
    /\ LET top == proc[p].stack[Len(proc[p].stack)]
       IN  \E n \in top.todo :
             LET sub == join(top.dir, n)
                 r == [proc[p] EXCEPT !.stack[Len(proc[p].stack)].todo = @ \ {n}]
             IN  IF is_dir(fs[top.dir][n])
                 THEN /\ nops' = nops + 1
                      /\ Upd(p, [r EXCEPT
                            !.pc = IF sub \in dirs THEN "resolve" ELSE "failed",
                            !.err = IF sub \in dirs THEN "none" ELSE "NotFound",
                            !.dir = sub, !.id = 0, !.pass = nops + 1,
                            !.fs0 = fs[sub], !.db0 = db])
                 ELSE /\ nops' = nops
                      /\ Upd(p, r)
    /\ UNCHANGED <<now, dirs, fs, db, writer, nenv, upserts, lastcap>>

\* save_dirs_props_recursive: Ok(()) after the loop returns to the caller's
\* loop, or from the root to main.
ReturnOk(r) ==
    IF Len(r.stack) = 1
    THEN Returned(r, "done", "none")
    ELSE [r EXCEPT !.stack = SubSeq(@, 1, Len(@) - 1)]

RecReturn(p) ==
    /\ proc[p].pc = "rec_loop"
    /\ proc[p].stack[Len(proc[p].stack)].todo = {}
    /\ Upd(p, ReturnOk(proc[p]))
    /\ UNCHANGED <<now, dirs, fs, db, writer, nops, nenv, upserts, lastcap>>

RecStep(p) ==
    \/ RecReadDir(p)
    \/ RecEntry(p)
    \/ RecReturn(p)

\* A directory entry as the tree is set up: created and written at time 0.
Ent(k) == IF k = "none" THEN NoEntry ELSE [kind |-> k, created |-> 0, modified |-> 0]

\* The trees: A holds f (a file or a subdirectory) and the subdirectory g;
\* A/g holds, or not, a file f and a subdirectory g; A/f and A/g/g, where
\* they exist, hold a file f.
RecInit ==
    /\ now = 0
    /\ \E af \in {"file", "dir"}, gf \in {"file", "none"}, gg \in {"dir", "none"} :
         /\ fs = [d \in AllPaths |-> [n \in Names |->
                CASE d = "A" /\ n = "f" -> Ent(af)
                  [] d = "A" /\ n = "g" -> Ent("dir")
                  [] d = join("A", "f") /\ n = "f" /\ af = "dir" -> Ent("file")
                  [] d = join("A", "g") /\ n = "f" -> Ent(gf)
                  [] d = join("A", "g") /\ n = "g" -> Ent(gg)
                  [] d = join(join("A", "g"), "g") /\ n = "f" /\ gg = "dir"
                        -> Ent("file")
                  [] OTHER -> NoEntry]]
         /\ dirs = {"A", join("A", "g")}
                    \cup (IF af = "dir" THEN {join("A", "f")} ELSE {})
                    \cup (IF gg = "dir" THEN {join(join("A", "g"), "g")} ELSE {})
    /\ db = EmptyDb
    /\ writer = NoProc
    /\ proc = [p \in Procs |-> IdleProc]
    /\ nops = 0
    /\ nenv = 0
    /\ upserts = [k \in {} |-> {}]
    /\ lastcap = [d \in AllPaths |-> NoCapture]

SeqStartRecursive(p, d) == AllIdle /\ StartRecursive(p, d)

\* One invocation at a time (which makes the invocations interchangeable:
\* they all run as p1) on a directory tree, recursive or not.
RecNext ==
    \/ Tick
    \/ \E d \in AllPaths : SeqStartRecursive("p1", d)
    \/ \E c \in {"save", "apply"}, d \in Paths : SeqStart("p1", c, d)
    \/ \E p \in Procs : Step(p)
    \/ \E p \in Procs : RecStep(p)

RecSpec == RecInit /\ [][RecNext]_vars

\* ------------------------------------------------------------------ claims
Restored(p) == proc[p].cmd = "apply" /\ proc[p].pc = "done"

\* C1 (round trip): when a restore of D has returned Ok, every regular file
\* of D that was a regular file with modification time M when the last capture
\* of D committed has modification time M again, whatever it was changed to in
\* between, and still has the creation time it had when the restore started.
C1_RoundTrip ==
    \A p \in Procs : Restored(p) =>
        \A n \in Names :
            LET d == proc[p].dir
            IN  (/\ lastcap[d].n > 0
                 /\ lastcap[d].fs[n].kind = "file"
                 /\ fs[d][n].kind = "file")
                => /\ fs[d][n].modified = lastcap[d].fs[n].modified
                   /\ fs[d][n].created = proc[p].fs0[n].created

\* C2 as stated (atomicity on failure): after a capture has failed, the store
\* is exactly what it was when the command started.
C2_StoreAsBefore ==
    \A p \in Procs :
        (proc[p].cmd = "save" /\ proc[p].pc = "failed") => db = proc[p].db0

\* The rows of the store written by pass k.
RowsOfPass(view, k) ==
    {r \in FileProps(view) : r.pass = k}
        \cup {view.dir_actions_log[i] : i \in
                {j \in 1..Len(view.dir_actions_log) :
                    view.dir_actions_log[j].pass = k}}

\* C2 as amended: after a capture has failed, no log entry or file record of
\* that pass is in the store, dir_actions_log and dir_file_props are exactly
\* what they were when the command started, and dir_props is what it was,
\* possibly with the directory record of the path added (the resolver commits
\* it in its own transaction before the pass begins).
C2_FailedCaptureLeavesRecords ==
    \A p \in Procs :
        (proc[p].cmd = "save" /\ proc[p].pc = "failed") =>
            /\ RowsOfPass(db, proc[p].pass) = {}
            /\ db.dir_actions_log = proc[p].db0.dir_actions_log
            /\ db.dir_file_props = proc[p].db0.dir_file_props
            /\ \/ db.dir_props = proc[p].db0.dir_props
               \/ /\ db.dir_props = Append(proc[p].db0.dir_props, proc[p].dir)
                  /\ SelectDirIds(proc[p].db0, proc[p].dir) = {}

\* C2 witness: a capture of a directory new to the store failed on a name
\* that is not Unicode, after its log INSERT and with the directory record
\* already committed.
C2_Witness ==
    \E p \in Procs :
        /\ proc[p].cmd = "save" /\ proc[p].pc = "failed"
        /\ proc[p].err = "Encoding"
        /\ db.dir_props # proc[p].db0.dir_props

\* A restore that has done both its reads.
HasRead(p) ==
    /\ proc[p].cmd = "apply"
    /\ proc[p].pc \in {"apply_loop", "done"}
    /\ proc[p].vlog # <<>>

\* C3 (no half-written capture): in what a restore read - the log entries and
\* the file records of its directory - every capture pass is there entirely or
\* not at all: a file record's pass has its log entry there, and for a log
\* entry that is there, every name its pass upserted has a record written by
\* that pass or by one logged after it.
C3_RestoreReadsWholePasses ==
    \A p \in Procs : HasRead(p) =>
        LET vlog == proc[p].vlog
            vfiles == proc[p].vfiles
        IN  /\ \A r \in vfiles : \E i \in 1..Len(vlog) : vlog[i].pass = r.pass
            /\ \A i \in 1..Len(vlog) :
                 /\ vlog[i].pass \in DOMAIN upserts
                 /\ \A n \in upserts[vlog[i].pass] :
                      \E r \in vfiles :
                        /\ r.name = n
                        /\ \E j \in i..Len(vlog) : vlog[j].pass = r.pass

\* C3 witness: a capture pass with upserts on the same directory committed
\* while the restore's transaction was open; what the restore read has none
\* of it.
C3_Witness ==
    \E p \in Procs :
        /\ HasRead(p) /\ proc[p].pc = "apply_loop"
        /\ \E r \in FileProps(db) :
             /\ r.dir_id = proc[p].id
             /\ \A i \in 1..Len(proc[p].vlog) : proc[p].vlog[i].pass # r.pass

\* C4 (upsert): the committed store, and every transaction's view of it, holds
\* at most one file record per (dir_id, name).
OneRecordPerName(view) ==
    \A i, j \in 1..Len(view.dir_file_props) :
        (/\ view.dir_file_props[i].dir_id = view.dir_file_props[j].dir_id
         /\ view.dir_file_props[i].name = view.dir_file_props[j].name) => i = j

C4_OneRecordPerName ==
    /\ OneRecordPerName(db)
    /\ \A p \in Procs : OneRecordPerName(proc[p].snap)

\* C4 witness: two committed passes upserted the same name, and the store
\* holds one file record.
C4_Witness ==
    /\ \E k1, k2 \in DOMAIN upserts : k1 # k2 /\ upserts[k1] \cap upserts[k2] # {}
    /\ Len(db.dir_file_props) = 1

\* C5 (directory identity): at most one dir_props row per path string, and
\* the identifier every resolver call returned is the id of that row.
C5_OneIdPerPath ==
    /\ \A d \in Paths : Cardinality(SelectDirIds(db, d)) <= 1
    /\ \A p \in Procs :
         proc[p].id # 0 => SelectDirIds(db, proc[p].dir) = {proc[p].id}

\* C5 witness: two concurrent callers for one path both found no row; one has
\* inserted it, the other is about to INSERT.
C5_Witness ==
    \E p, q \in Procs :
        /\ p # q
        /\ proc[p].pc = "resolve_insert"
        /\ proc[q].id # 0 /\ proc[q].dir = proc[p].dir
        /\ proc[q].db0.dir_props = <<>>
        /\ SelectDirIds(db, proc[p].dir) # {}

\* The latest cached_date in the log of directory id.
Anchor(view, id) ==
    LET log == SelectLog(view, id)
    IN  {log[i].cached_date : i \in
            {j \in 1..Len(log) :
                \A k \in 1..Len(log) : log[k].cached_date.utc <= log[j].cached_date.utc}}

\* C6 (restore anchor): the files a restore goes through are exactly the
\* names whose file record of that directory carries the latest cached_date
\* of the directory's log, and it writes to no other file.
C6_RestoreAnchor ==
    \A p \in Procs :
        (proc[p].cmd = "apply" /\ proc[p].pc \in {"apply_loop", "done"}) =>
            /\ {n \in Names : proc[p].res[n] # "na"}
                 = {r.name : r \in {q \in FileProps(db) :
                        /\ q.dir_id = proc[p].id
                        /\ q.cached_date \in Anchor(db, proc[p].id)}}
            /\ \A n \in Names :
                 proc[p].res[n] = "na" => fs[proc[p].dir][n] = proc[p].fs0[n]

\* C6 witness: f captured, f deleted, g added, captured again later; the
\* restore has written g and not gone near f, whose record is stale.
C6_Witness ==
    \E p \in Procs :
        /\ Restored(p)
        /\ proc[p].res["g"] = "written" /\ proc[p].res["f"] = "na"
        /\ "f" \in DirNames(db, proc[p].id)
        /\ fs[proc[p].dir]["f"].kind = "none"

\* C7 (idempotence): when the last two committed captures of a directory saw
\* the same directory contents, there is one dir_props row for it, the second
\* added one log entry, the names with a file record are those after the
\* first, and every file record of the directory carries the cached_date of
\* the second.
C7_Idempotent ==
    \A d \in Paths :
        (lastcap[d].n >= 2 /\ lastcap[d].fs = lastcap[d].prev_fs) =>
            /\ Cardinality(SelectDirIds(db, d)) = 1
            /\ \A id \in SelectDirIds(db, d) :
                 /\ Len(SelectLog(db, id)) = lastcap[d].prev_nlog + 1
                 /\ DirNames(db, id) = lastcap[d].prev_names
                 /\ \A r \in FileProps(db) :
                      r.dir_id = id => r.cached_date = lastcap[d].cached_time

\* C8 (no-op safety): a restore of an existing directory whose log is empty
\* goes through no file, leaves the directory as it found it, and returns Ok
\* unless the store fails or the process is killed.
C8_NoCaptureNoOp ==
    \A p \in Procs :
        (/\ proc[p].cmd = "apply"
         /\ proc[p].dir \in dirs
         /\ \A id \in SelectDirIds(db, proc[p].dir) : SelectLog(db, id) = <<>>)
        => /\ \A n \in Names : proc[p].res[n] = "na"
           /\ fs[proc[p].dir] = proc[p].fs0
           /\ proc[p].pc = "failed" => proc[p].err \in {"Store", "Interrupted"}

\* C8 witness: such a restore has returned Ok, with a file in the directory.
C8_Witness ==
    \E p \in Procs :
        /\ Restored(p)
        /\ proc[p].id # 0 /\ SelectLog(db, proc[p].id) = <<>>
        /\ \E n \in Names : fs[proc[p].dir][n].kind = "file"

\* The modified_date stored for name n under directory id, as a SystemTime.
StoredModified(view, id, n) ==
    {r.modified_date.utc : r \in {q \in FileProps(view) : q.dir_id = id /\ q.name = n}}

\* C9 (skip): a restore that returned Ok has set the stored modification time
\* on every record's file that is a regular file, has left every other
\* record's entry as it was, and a restore fails on a record only when the
\* open or the write of a regular file failed.
C9_SkipMissing ==
    \A p \in Procs :
        proc[p].cmd = "apply" =>
            /\ proc[p].pc = "done" =>
                 \A n \in Names : proc[p].res[n] # "na" =>
                    IF fs[proc[p].dir][n].kind = "file"
                    THEN /\ proc[p].res[n] = "written"
                         /\ {fs[proc[p].dir][n].modified}
                              = StoredModified(db, proc[p].id, n)
                    ELSE /\ proc[p].res[n] = "skipped"
                         /\ fs[proc[p].dir][n] = proc[p].fs0[n]
            /\ \A n \in Names :
                 /\ proc[p].res[n] = "failed" => fs[proc[p].dir][n].kind = "file"
                 /\ proc[p].res[n] = "skipped" => fs[proc[p].dir][n].kind # "file"
            /\ proc[p].pc = "failed" =>
                 \/ proc[p].err \in {"Store", "Interrupted", "NotFound"}
                 \/ proc[p].err = "Io" /\ \E n \in Names : proc[p].res[n] = "failed"

\* C9 witness: an Ok restore that wrote one recorded file and skipped another
\* that had been deleted.
C9_Witness ==
    \E p \in Procs :
        /\ Restored(p)
        /\ \E n1, n2 \in Names :
             /\ proc[p].res[n1] = "written"
             /\ proc[p].res[n2] = "skipped" /\ fs[proc[p].dir][n2].kind = "none"

\* C10 (fail fast): once the open or the write of a record's file has failed
\* the restore has returned Err, and from then on it writes no file and
\* processes no further record.
C10_FailFast ==
    /\ [](\A p \in Procs :
            (\E n \in Names : proc[p].res[n] = "failed") =>
                proc[p].pc = "failed" /\ proc[p].err = "Io")
    /\ [][\A p \in Procs :
            (\E n \in Names : proc[p].res[n] = "failed") =>
                /\ fs' = fs
                /\ \A n \in Names :
                     proc[p].res[n] = "pending" =>
                        proc'[p].res[n] \in {"pending", "na"}]_vars

\* C10 witness: a restore failed on one record with another still unprocessed.
C10_Witness ==
    \E p \in Procs : \E n1, n2 \in Names :
        proc[p].res[n1] = "failed" /\ proc[p].res[n2] = "pending"

\* C11 (missing directory): a capture or a restore of a path that does not
\* exist has failed with the not-found error without resolving an id, the step
\* that failed it changed neither the store nor the filesystem, and the store
\* holds no directory record of the path and no row of that command.
C11_MissingDirectory ==
    /\ [](\A p \in Procs :
            (proc[p].cmd # "none" /\ proc[p].dir \notin dirs) =>
                /\ proc[p].pc = "failed" /\ proc[p].err = "NotFound"
                /\ proc[p].id = 0
                /\ db = proc[p].db0
                /\ SelectDirIds(db, proc[p].dir) = {}
                /\ RowsOfPass(db, proc[p].pass) = {})
    /\ [][\A p \in Procs :
            (proc'[p].err = "NotFound" /\ proc[p].err # "NotFound") =>
                db' = db /\ fs' = fs /\ dirs' = dirs]_vars

\* C11 witness: a command on the missing path has failed while the store
\* holds records and the other directory holds a file.
C11_Witness ==
    \E p \in Procs :
        /\ proc[p].err = "NotFound" /\ proc[p].dir \notin dirs
        /\ db.dir_file_props # <<>>
        /\ \E d \in dirs, n \in Names : fs[d][n].kind = "file"

\* The directories of the subtree rooted at d (is_dir entries, followed down).
RECURSIVE Subtree(_)
Subtree(d) ==
    {d} \cup UNION {Subtree(join(d, n)) : n \in {m \in Names : is_dir(fs[d][m])}}

\* The store when command p started.
StoreAtStart(p) == IF proc[p].recursive THEN proc[p].rdb0 ELSE proc[p].db0

\* C12 (recursive capture coverage): a capture that returned Ok has committed
\* exactly one pass for every directory of the subtree of its root when
\* recursive, and one pass on the given path when not; each such directory
\* has one log entry more than when the command started, the log of every
\* other directory is as it was, and every regular file directly inside each
\* has a file record written by that directory's pass.
C12_RecursiveCoverage ==
    \A p \in Procs :
        (proc[p].cmd = "save" /\ proc[p].pc = "done") =>
            LET ps == proc[p].passes
                covered == {ps[i].dir : i \in 1..Len(ps)}
                old == StoreAtStart(p)
            IN  /\ IF proc[p].recursive
                   THEN /\ covered = Subtree(proc[p].root)
                        /\ Len(ps) = Cardinality(Subtree(proc[p].root))
                   ELSE ps = <<[dir |-> proc[p].dir, pass |-> proc[p].pass]>>
                /\ \A d \in AllPaths : \A id \in SelectDirIds(db, d) :
                     Len(SelectLog(db, id)) =
                        Len(SelectLog(old, id)) + (IF d \in covered THEN 1 ELSE 0)
                /\ \A i \in 1..Len(ps) : \A n \in Names :
                     fs[ps[i].dir][n].kind = "file" =>
                        \E r \in FileProps(db) :
                            /\ SelectDirIds(db, ps[i].dir) = {r.dir_id}
                            /\ r.name = n
                            /\ r.pass = ps[i].pass

\* C13 (no silent omission): a capture pass that committed has upserted the
\* record of every regular file of its directory - whatever went wrong on the
\* way made the pass fail instead of leaving a file out.
C13_NoSilentOmission ==
    \A p \in Procs :
        (proc[p].cmd = "save" /\ proc[p].pc = "done") =>
            /\ proc[p].pass \in DOMAIN upserts
            /\ upserts[proc[p].pass] =
                    {n \in Names : fs[proc[p].dir][n].kind = "file"}

\* C14 (capture has no filesystem effect): no step of a capture, recursive or
\* not, from its start to its return (Ok or Err) and the exit of the process,
\* changes an entry of any directory or the set of directories.
C14_CaptureLeavesFiles ==
    [][\A p \in Procs :
         (/\ proc[p].cmd = "save" \/ proc'[p].cmd = "save"
          /\ proc'[p] # proc[p])
         => fs' = fs /\ dirs' = dirs]_vars

\* C14 witness: a recursive capture has committed a pass with an upsert and
\* then failed in a later directory.
C14_Witness ==
    \E p \in Procs :
        /\ proc[p].cmd = "save" /\ proc[p].recursive /\ proc[p].pc = "failed"
        /\ \E i \in 1..Len(proc[p].passes) :
             /\ proc[p].passes[i].pass \in DOMAIN upserts
             /\ upserts[proc[p].passes[i].pass] # {}

\* The log entries of view written by pass k.
LogOfPass(view, k) ==
    {i \in 1..Len(view.dir_actions_log) : view.dir_actions_log[i].pass = k}

\* In view, pass k of directory id with timestamp t has one log entry,
\* (id, t), and every file record it wrote is under id and carries t.
PassSharesTimestamp(view, k, id, t) ==
    /\ Cardinality(LogOfPass(view, k)) = 1
    /\ \A i \in LogOfPass(view, k) :
         /\ view.dir_actions_log[i].dir_id = id
         /\ view.dir_actions_log[i].cached_date = t
    /\ \A r \in FileProps(view) :
         r.pass = k => r.dir_id = id /\ r.cached_date = t

\* C15 (shared capture timestamp): every pass, in its transaction while it
\* runs and in the store once committed, has exactly one log entry (D, T)
\* with T the timestamp it took before its transaction, every name it has
\* upserted has its record written by the pass, and every file record of the
\* pass carries that same T; no file record is without its pass's log entry.
C15_SharedTimestamp ==
    /\ \A p \in Procs :
         proc[p].tx = "write" =>
            /\ PassSharesTimestamp(proc[p].snap, proc[p].pass,
                                   proc[p].id, proc[p].cached_time)
            /\ \A n \in proc[p].ups :
                 \E r \in FileProps(proc[p].snap) :
                    r.pass = proc[p].pass /\ r.name = n
    /\ \A k \in DOMAIN upserts :
         \E i \in LogOfPass(db, k) :
            PassSharesTimestamp(db, k, db.dir_actions_log[i].dir_id,
                                db.dir_actions_log[i].cached_date)
    /\ \A r \in FileProps(db) : r.pass \in DOMAIN upserts

\* C15 witness: a pass has upserted a record and is about to commit at a
\* moment when the clock no longer shows the timestamp it took.
C15_Witness ==
    \E p \in Procs :
        /\ proc[p].pc = "save_loop" /\ proc[p].entries = {}
        /\ proc[p].ups # {}
        /\ proc[p].cached_time # system_time_to_datetime_local(now)

\* C16 (restore ordering): a restore does its second read in the transaction
\* of the first, and has no transaction open once it has written a file's
\* modification time.
C16_WritesAfterTransaction ==
    \A p \in Procs :
        proc[p].cmd = "apply" =>
            /\ proc[p].pc = "apply_files" => proc[p].tx = "read"
            /\ (\E n \in Names : proc[p].res[n] = "written") => proc[p].tx = "none"

IsPrefix(s, t) == Len(s) <= Len(t) /\ SubSeq(t, 1, Len(s)) = s

\* C18 (store monotonicity): every step leaves the rows of dir_props and of
\* dir_actions_log that are there in place and unchanged; the log changes only
\* in the step that commits a capture pass, which appends exactly the one
\* entry of that pass, for its directory; no step of a restore changes it.
C18_StoreMonotonic ==
    [][/\ IsPrefix(db.dir_props, db'.dir_props)
       /\ IsPrefix(db.dir_actions_log, db'.dir_actions_log)
       /\ \/ db'.dir_actions_log = db.dir_actions_log
          \/ \E p \in Procs : SaveCommit(p)
       /\ \A p \in Procs :
            /\ SaveCommit(p) =>
                 db'.dir_actions_log =
                    Append(db.dir_actions_log,
                           [dir_id |-> proc[p].id, action_type |-> CacheDates,
                            cached_date |-> proc[p].cached_time,
                            pass |-> proc[p].pass])
            /\ (proc[p].cmd = "apply" /\ proc'[p] # proc[p]) =>
                 db'.dir_actions_log = db.dir_actions_log]_vars

\* C18 witness: a restore has returned Ok on a directory whose log holds the
\* entries of two capture passes.
C18_Witness ==
    \E p \in Procs :
        /\ Restored(p)
        /\ Len(SelectLog(db, proc[p].id)) >= 2

\* The regular files directly inside directory d.
Files(d) == {n \in Names : fs[d][n].kind = "file"}

\* C19 (concurrent captures agree with the restore anchor): when two
\* invocations have each committed a capture pass of the same directory, each
\* pass having upserted every regular file of it, the record of every such
\* file carries the latest cached_date of the directory's log.
C19_ConcurrentCapturesAgree ==
    \A p, q \in Procs :
        (/\ p # q
         /\ proc[p].cmd = "save" /\ proc[p].pc = "done"
         /\ proc[q].cmd = "save" /\ proc[q].pc = "done"
         /\ proc[p].dir = proc[q].dir
         /\ upserts[proc[p].pass] = Files(proc[p].dir)
         /\ upserts[proc[q].pass] = Files(proc[p].dir))
        => \A r \in FileProps(db) :
              (r.dir_id = proc[p].id /\ r.name \in Files(proc[p].dir))
                 => r.cached_date \in Anchor(db, proc[p].id)

\* C20 (capture completeness): after the last committed capture pass of a
\* directory, with timestamp T, the names of the file records of the
\* directory that carry T are exactly the regular files that were directly
\* inside it during the pass.
C20_CaptureComplete ==
    \A d \in AllPaths :
        lastcap[d].n > 0 =>
            \A id \in SelectDirIds(db, d) :
                {r.name : r \in SelectFileProps(db, id, lastcap[d].cached_time)}
                    = {n \in Names : lastcap[d].fs[n].kind = "file"}

====
